---------------------------- MODULE Spec2Model ----------------------------
(* Model of src/main.py: a Telegram relay bot that forwards text messages, *)
(* with recent dialog history, to a completion API, stores the exchange in *)
(* an SQLite table and memoizes the answers with functools.lru_cache.      *)
(*                                                                         *)
(* Texts are Python str values, modelled as sequences of Unicode code      *)
(* points. Timestamps are whole seconds: CURRENT_TIMESTAMP and             *)
(* datetime('now', ...) both render 'YYYY-MM-DD HH:MM:SS', a fixed-width   *)
(* format whose string order is the order of the seconds it denotes.       *)
EXTENDS Integers, Sequences, FiniteSets, TLC

VARIABLES
    messages,     \* rows of table messages, in rowid order
    nextId,       \* next AUTOINCREMENT id
    now,          \* the store clock, in seconds
    ticks,        \* how many times the clock has advanced
    cache,        \* lru_cache of get_cached_response, least recently used first
    connections,  \* db_manager.connections: thread id -> connection
    nextConn,     \* identity of the next connection sqlite3.connect creates
    lastOp,       \* observation of the last handler run by the dispatch loop
    handled,      \* updates the dispatch loop has handed to a handler
    invoked,      \* cache keys ask_yandex_gpt was called for since the last cache_clear
    ftext,        \* filter_response study: the text
    fcount,       \* filter_response study: how many times it was filtered
    used,         \* cache keys in the order of their latest lookup or store
    threads,      \* interleaved runs: where each worker thread stands
    main,         \* interleaved runs: where the main thread stands in close_all
    closed,       \* connections on which close() was called
    clearedChats, \* chats cleared with no message arriving since
    firstId       \* the AUTOINCREMENT id the run began with

vars == <<messages, nextId, now, ticks, cache, connections, nextConn, lastOp,
          handled, invoked, ftext, fcount, used, threads, main, closed,
          clearedChats, firstId>>

-----------------------------------------------------------------------------
(* Bounds of the model *)

MaxUpdates == 4       \* updates handled in one run
MaxRows == 3          \* rows ever inserted
MaxTicks == 2         \* times the clock is seen to advance
MaxPieces == 3        \* pieces concatenated into an input of filter_response
MaxLimit == 3         \* largest max_messages tried on get_dialog_history
MaxStarts == 3        \* handlers started in one interleaved run

-----------------------------------------------------------------------------
(* String literals of the program, as code points *)

\* "kak iskusstvennyj intellekt" (as an artificial intelligence)
Phrase1 ==
    <<1082, 1072, 1082, 32, 1080, 1089, 1082, 1091, 1089, 1089, 1090, 1074,
    1077, 1085, 1085, 1099, 1081, 32, 1080, 1085, 1090, 1077, 1083, 1083, 1077,
    1082, 1090>>

\* "ya obuchennaya model'" (I am a trained model)
Phrase2 ==
    <<1103, 32, 1086, 1073, 1091, 1095, 1077, 1085, 1085, 1072, 1103, 32, 1084,
    1086, 1076, 1077, 1083, 1100>>

\* "naskol'ko ya ponimayu" (as far as I understand)
Phrase3 ==
    <<1085, 1072, 1089, 1082, 1086, 1083, 1100, 1082, 1086, 32, 1103, 32, 1087,
    1086, 1085, 1080, 1084, 1072, 1102>>

\* "vot razvernutyj otvet" (here is a detailed answer)
Phrase4 ==
    <<1074, 1086, 1090, 32, 1088, 1072, 1079, 1074, 1077, 1088, 1085, 1091,
    1090, 1099, 1081, 32, 1086, 1090, 1074, 1077, 1090>>

\* "kak yazykovaya model'" (as a language model)
Phrase5 ==
    <<1082, 1072, 1082, 32, 1103, 1079, 1099, 1082, 1086, 1074, 1072, 1103, 32,
    1084, 1086, 1076, 1077, 1083, 1100>>

unwanted_phrases == <<Phrase1, Phrase2, Phrase3, Phrase4, Phrase5>>

\* the system instruction: "Ty - tochnyj AI-assistent. Otvechaj kratko i po
\* delu. Izbegaj vvodnyh fraz."
SystemText ==
    <<1058, 1099, 32, 45, 32, 1090, 1086, 1095, 1085, 1099, 1081, 32, 65, 73,
    45, 1072, 1089, 1089, 1080, 1089, 1090, 1077, 1085, 1090, 46, 32, 1054,
    1090, 1074, 1077, 1095, 1072, 1081, 32, 1082, 1088, 1072, 1090, 1082,
    1086, 32, 1080, 32, 1087, 1086, 32, 1076, 1077, 1083, 1091, 46, 32, 1048,
    1079, 1073, 1077, 1075, 1072, 1081, 32, 1074, 1074, 1086, 1076, 1085,
    1099, 1093, 32, 1092, 1088, 1072, 1079, 46>>

\* warning sign + "Oshibka obrabotki zaprosa" (request processing error)
TransportFallback ==
    <<9888, 65039, 32, 1054, 1096, 1080, 1073, 1082, 1072, 32, 1086, 1073, 1088,
    1072, 1073, 1086, 1090, 1082, 1080, 32, 1079, 1072, 1087, 1088, 1086, 1089,
    1072>>

\* warning sign + "Sistemnaya oshibka" (system error)
SystemFallback ==
    <<9888, 65039, 32, 1057, 1080, 1089, 1090, 1077, 1084, 1085, 1072, 1103, 32,
    1086, 1096, 1080, 1073, 1082, 1072>>

\* the welcome text of /start and /help
WelcomeText ==
    <<128075, 32, 1055, 1088, 1080, 1074, 1077, 1090, 33, 32, 1071, 32, 1087,
    1086, 1083, 1077, 1079, 1085, 1099, 1081, 32, 1072, 1089, 1089, 1080, 1089,
    1090, 1077, 1085, 1090, 10, 10, 1054, 1090, 1074, 1077, 1095, 1072, 1102,
    32, 1082, 1088, 1072, 1090, 1082, 1086, 32, 1080, 32, 1087, 1086, 32, 1076,
    1077, 1083, 1091, 46, 10, 1044, 1086, 1089, 1090, 1091, 1087, 1085, 1099,
    1077, 32, 1082, 1086, 1084, 1072, 1085, 1076, 1099, 58, 10, 47, 99, 108,
    101, 97, 114, 32, 45, 32, 1086, 1095, 1080, 1089, 1090, 1080, 1090, 1100,
    32, 1080, 1089, 1090, 1086, 1088, 1080, 1102, 32, 1076, 1080, 1072, 1083,
    1086, 1075, 1072, 10, 10, 1055, 1088, 1086, 1089, 1090, 1086, 32, 1085,
    1072, 1087, 1080, 1096, 1080, 32, 1089, 1074, 1086, 1081, 32, 1074, 1086,
    1087, 1088, 1086, 1089, 33>>

\* wastebasket + "Istoriya dialoga ochishchena!" (history cleared)
ClearedReply ==
    <<128465, 65039, 32, 1048, 1089, 1090, 1086, 1088, 1080, 1103, 32, 1076,
    1080, 1072, 1083, 1086, 1075, 1072, 32, 1086, 1095, 1080, 1097, 1077, 1085,
    1072, 33>>

\* cross mark + "Ne udalos' ochistit' istoriyu" (could not clear the history)
ClearFailedReply ==
    <<10060, 32, 1053, 1077, 32, 1091, 1076, 1072, 1083, 1086, 1089, 1100, 32,
    1086, 1095, 1080, 1089, 1090, 1080, 1090, 1100, 32, 1080, 1089, 1090, 1086,
    1088, 1080, 1102>>

\* "Privet! Chem pomoch'?" (Hi! How can I help?)
GreetingReply ==
    <<1055, 1088, 1080, 1074, 1077, 1090, 33, 32, 1063, 1077, 1084, 32, 1087,
    1086, 1084, 1086, 1095, 1100, 63>>

\* warning sign + "Soobshchenie slishkom dlinnoe. Maksimum 500 simvolov."
TooLongReply ==
    <<9888, 65039, 32, 1057, 1086, 1086, 1073, 1097, 1077, 1085, 1080, 1077, 32,
    1089, 1083, 1080, 1096, 1082, 1086, 1084, 32, 1076, 1083, 1080, 1085, 1085,
    1086, 1077, 46, 32, 1052, 1072, 1082, 1089, 1080, 1084, 1091, 1084, 32, 53,
    48, 48, 32, 1089, 1080, 1084, 1074, 1086, 1083, 1086, 1074, 46>>

\* cross mark + "Oshibka obrabotki. Poprobujte pozzhe." (try again later)
ErrorReply ==
    <<10060, 32, 1054, 1096, 1080, 1073, 1082, 1072, 32, 1086, 1073, 1088, 1072,
    1073, 1086, 1090, 1082, 1080, 46, 32, 1055, 1086, 1087, 1088, 1086, 1073,
    1091, 1081, 1090, 1077, 32, 1087, 1086, 1079, 1078, 1077, 46>>

\* "privet"
Greeting1 == <<1087, 1088, 1080, 1074, 1077, 1090>>

\* "zdravstvuj"
Greeting2 == <<1079, 1076, 1088, 1072, 1074, 1089, 1090, 1074, 1091, 1081>>

Greetings == {Greeting1, Greeting2}

-----------------------------------------------------------------------------
(* Python str operations, on the alphabet the inputs are drawn from:      *)
(* ASCII, the basic Cyrillic block and the symbols of the literals above. *)

\* The characters str.strip() removes (those with str.isspace()).
Whitespace ==
    {9, 10, 11, 12, 13, 28, 29, 30, 31, 32, 133, 160, 5760, 8232, 8233, 8239,
     8287, 12288} \cup (8192..8202)

\* str.lower() of one character: A-Z, the Cyrillic capitals and Io.
LowerChar(c) ==
    IF c \in 65..90 \/ c \in 1040..1071 THEN c + 32
    ELSE IF c = 1025 THEN 1105
    ELSE c

\* text.lower()
Lower(text) == [i \in 1..Len(text) |-> LowerChar(text[i])]

\* text.strip(): what lies between the first and the last character that
\* is not whitespace
Strip(text) ==
    LET keep == {i \in 1..Len(text) : text[i] \notin Whitespace}
    IN  IF keep = {} THEN <<>>
        ELSE SubSeq(text,
                    CHOOSE i \in keep : \A j \in keep : i <= j,
                    CHOOSE i \in keep : \A j \in keep : j <= i)

\* text[:n]
Prefix(text, n) == SubSeq(text, 1, IF Len(text) < n THEN Len(text) ELSE n)

\* whether text starts with phrase
StartsWith(text, phrase) ==
    Len(text) >= Len(phrase) /\ SubSeq(text, 1, Len(phrase)) = phrase

\* text.replace(phrase, ""): one left-to-right scan that drops every
\* non-overlapping occurrence; what the removal joins is not scanned again.
RECURSIVE Remove(_, _)
Remove(text, phrase) ==
    IF Len(text) < Len(phrase) THEN text
    ELSE IF StartsWith(text, phrase)
         THEN Remove(SubSeq(text, Len(phrase) + 1, Len(text)), phrase)
         ELSE <<Head(text)>> \o Remove(Tail(text), phrase)

\* the loop of filter_response over the first n phrases
RECURSIVE RemovePhrases(_, _)
RemovePhrases(text, n) ==
    IF n = 0 THEN text
    ELSE Remove(RemovePhrases(text, n - 1), unwanted_phrases[n])

filter_response(text) == Strip(RemovePhrases(text, Len(unwanted_phrases)))

\* whether phrase occurs in text (Python's `phrase in text`)
Contains(text, phrase) ==
    \E i \in 1..(Len(text) - Len(phrase) + 1) :
        SubSeq(text, i, i + Len(phrase) - 1) = phrase

\* c repeated n times (Python's c * n)
Rep(c, n) == [i \in 1..n |-> c]

-----------------------------------------------------------------------------
(* The history store: table messages and its AFTER INSERT trigger *)

\* datetime('now', '-7 days'): the retention window, in seconds
RetentionSeconds == 604800

\* lru_cache(maxsize=500)
CacheMaxSize == 500

\* len(message.text) > 500
MaxTextLen == 500

\* message.text[:300]
PromptLen == 300

\* get_dialog_history(chat_id, max_messages=7)
DefaultMaxMessages == 7

\* a trigger with a window of eight days
cleanup_after_eight_days(rows, t) ==
    SelectSeq(rows, LAMBDA r : ~(r.timestamp < t - RetentionSeconds - 86400))

\* trigger cleanup_old_messages: DELETE FROM messages WHERE timestamp <
\* datetime('now', '-7 days'), over the whole table
cleanup_old_messages(rows, t) ==
    SelectSeq(rows, LAMBDA r : ~(r.timestamp < t - RetentionSeconds))

\* INSERT INTO messages (chat_id, role, content): id from AUTOINCREMENT,
\* timestamp from DEFAULT CURRENT_TIMESTAMP, then the trigger
InsertRow(rows, id, chat_id, role, content, t) ==
    cleanup_old_messages(
        Append(rows, [id |-> id, chat_id |-> chat_id, role |-> role,
                      content |-> content, timestamp |-> t]), t)

\* a DELETE with the comparison inverted
DeleteOtherChats(rows, chat_id) == SelectSeq(rows, LAMBDA r : r.chat_id = chat_id)

\* DELETE FROM messages WHERE chat_id = ?
DeleteChat(rows, chat_id) == SelectSeq(rows, LAMBDA r : r.chat_id # chat_id)

\* WHERE chat_id = ?
ChatRows(rows, chat_id) == SelectSeq(rows, LAMBDA r : r.chat_id = chat_id)

Range(s) == {s[i] : i \in 1..Len(s)}

\* ORDER BY timestamp DESC: every order of the rows with non-increasing
\* timestamps. SQL leaves the order of rows with equal timestamps to the
\* engine, so each of them is a possible result.
RECURSIVE OrderByTimestampDesc(_)
OrderByTimestampDesc(S) ==
    IF S = {} THEN {<<>>}
    ELSE UNION {{<<r>> \o s : s \in OrderByTimestampDesc(S \ {r})} :
                r \in {x \in S : \A y \in S : y.timestamp <= x.timestamp}}

\* a fetch that forgets to reverse
NotReversed(s) == s

\* [::-1]
Reverse(s) == [i \in 1..Len(s) |-> s[Len(s) + 1 - i]]

\* the rows get_dialog_history can fetch: SELECT ... WHERE chat_id = ?
\* ORDER BY timestamp DESC LIMIT ?, reversed
SelectRecent(rows, chat_id, max_messages) ==
    {Reverse(Prefix(s, max_messages)) :
        s \in OrderByTimestampDesc(Range(ChatRows(rows, chat_id)))}

\* SELECT role, content
RoleContent(rs) == [i \in 1..Len(rs) |-> <<rs[i].role, rs[i].content>>]

\* the lists get_dialog_history can return
get_dialog_history(rows, chat_id, max_messages) ==
    {RoleContent(rs) : rs \in SelectRecent(rows, chat_id, max_messages)}

-----------------------------------------------------------------------------
(* The response cache: functools.lru_cache over (chat_id, prompt) *)

\* a key that ignores the conversation
CacheKeyByPrompt(chat_id, prompt) == <<0, prompt>>

\* the key lru_cache makes of the arguments of get_cached_response
CacheKey(chat_id, prompt) == <<chat_id, prompt>>

CacheKeys(c) == {c[i].key : i \in 1..Len(c)}

CacheIndex(c, key) == CHOOSE i \in 1..Len(c) : c[i].key = key

\* a lookup that answers with the oldest entry, whatever its key
CacheValueOfOldest(c, key) == c[1].value

CacheValue(c, key) == c[CacheIndex(c, key)].value

\* a hit that leaves the order as it is: first in, first out
CacheNoTouch(c, key) == c

\* a hit moves the entry to the most recently used end
CacheTouch(c, key) ==
    LET i == CacheIndex(c, key)
    IN  SubSeq(c, 1, i - 1) \o SubSeq(c, i + 1, Len(c)) \o <<c[i]>>

\* a store that keeps replies only, not the two fallback strings
CacheStoreReplies(c, key, value) ==
    IF value \in {TransportFallback, SystemFallback} THEN c
    ELSE Append(c, [key |-> key, value |-> value])

\* a miss stores the result; a full cache drops its least recently used entry
CacheStore(c, key, value) ==
    LET e == [key |-> key, value |-> value]
    IN  IF Len(c) >= CacheMaxSize THEN Append(Tail(c), e) ELSE Append(c, e)

\* get_cached_response.cache_clear()
cache_clear(c) == <<>>

\* The record of uses: the keys looked up or stored since the last
\* cache_clear, each once, in the order of their latest lookup or store.
NoUses == <<>>

UsesOf(c) == [i \in 1..Len(c) |-> c[i].key]

Use(u, key) == Append(SelectSeq(u, LAMBDA k : k # key), key)

-----------------------------------------------------------------------------
(* The connection registry *)

\* a registry that keeps one entry for all threads
get_connection_unkeyed(conns, w, fresh) ==
    IF 1 \in DOMAIN conns THEN conns ELSE conns @@ (1 :> fresh)

\* DatabaseManager.get_connection for thread w: the registry afterwards
get_connection(conns, w, fresh) ==
    IF w \in DOMAIN conns THEN conns ELSE conns @@ (w :> fresh)

-----------------------------------------------------------------------------
(* Inputs *)

\* telebot's worker threads
Workers == {1, 2}

\* message.chat.id
Chats == {1, 2}

\* "a"
TextA == <<97>>

\* 500 characters: the longest text that is accepted; its prompt is cut to 300
Text500 == Rep(98, 500)

\* 501 characters
Text501 == Rep(98, 501)

\* " PRIVET\n" in Cyrillic capitals
TextShout == <<32, 1055, 1056, 1048, 1042, 1045, 1058, 10>>

\* "privet" followed by 495 spaces: 501 characters
TextPadded == Greeting1 \o Rep(32, 495)

\* "zdravstvuj", the second greeting, as it is
TextHello == Greeting2

\* message.text of the runs that study the store and the cache
Texts == {TextA}

\* message.text of the runs that study the dispatcher
LongTexts == {TextA, Text500, Text501, TextShout, TextPadded, TextHello}

\* Phrase2, then " ok "
ApiPadded == Phrase2 \o <<32, 111, 107, 32>>

\* result.alternatives[0].message.text of a well-formed API response
ApiTexts == {ApiPadded}

\* What a call of the Bot API (reply_to, send_chat_action) can do: TRUE when
\* it goes through, FALSE when it raises.
Reliable == {TRUE}

Faulty == {TRUE, FALSE}

-----------------------------------------------------------------------------
(* Handlers *)

Send(reply, ok) == [reply |-> reply, ok |-> ok]

\* try: bot.reply_to(message, reply); except: bot.reply_to(message, fallback)
Sends(reply, fallback, ok1, ok2) ==
    IF ok1 THEN <<Send(reply, TRUE)>>
    ELSE <<Send(reply, FALSE), Send(fallback, ok2)>>

\* the handler raises when the reply_to of its except clause raises
Raises(sends) == ~sends[Len(sends)].ok

IdleOp ==
    [op |-> "none", chat |-> 0, text |-> <<>>, path |-> "none",
     cacheUsed |-> FALSE, called |-> FALSE, storeUsed |-> FALSE,
     fetched |-> <<>>, request |-> <<>>, api |-> <<>>, result |-> <<>>,
     sends |-> <<>>, raised |-> FALSE]

\* a test on the text as it came, without lower() and strip()
IsGreetingAsTyped(text) == text \in Greetings

\* lower_text in ["privet", "zdravstvuj"]
IsGreeting(text) == Strip(Lower(text)) \in Greetings

\* message.text[:300]
PromptOf(text) == Prefix(text, PromptLen)

\* a length check made on the truncated text
TooLongAfterCut(text) == Len(PromptOf(text)) > MaxTextLen

\* len(message.text) > 500
TooLong(text) == Len(text) > MaxTextLen

\* What handle_message computes from message.text alone, once per text:
\* the two tests and the prompt it would pass on.
Read(text) ==
    [text |-> text, greeting |-> IsGreeting(text), tooLong |-> TooLong(text),
     prompt |-> PromptOf(text)]

Inbox == {Read(text) : text \in Texts}

LongInbox == {Read(text) : text \in LongTexts}

\* the texts of the dispatcher runs that handle_message takes for a greeting
GreetingTexts == {text \in LongTexts : IsGreeting(text)}

\* a message list without the history
RequestWithoutHistory(history, prompt) ==
    <<[role |-> "system", text |-> SystemText],
      [role |-> "user", text |-> prompt]>>

\* data["messages"]: the system instruction, the history, the prompt
RequestOf(history, prompt) ==
    <<[role |-> "system", text |-> SystemText]>>
    \o [i \in 1..Len(history) |->
            [role |-> history[i][1], text |-> history[i][2]]]
    \o <<[role |-> "user", text |-> prompt]>>

\* The outcomes of ask_yandex_gpt(prompt, chat_id) on table rows, next id
\* id and clock t, one record per way through the function:
\*   read_failed    the SELECT of get_dialog_history raises, outside the try
\*   transport      except RequestException: requests.post raised,
\*                  raise_for_status raised, or response.json() raised the
\*                  JSONDecodeError of requests 2.27 and later
\*   system         except Exception, nothing written: response.json() raised
\*                  a plain ValueError (older requests), the JSON lacks
\*                  result.alternatives[0].message.text, or the first
\*                  save_message raised
\*   write2_failed  except Exception: the second save_message raised
\*   ok             both rows written
\* fetched is the ids of the rows the SELECT returned, in the order of
\* history, and request the message list that was posted. The clock may pass
\* a second boundary between the two inserts of ok; n counts the advances of
\* the clock.
AskReadFailed(rows, id, t, n) ==
    [path |-> "read_failed", raised |-> TRUE, fetched |-> <<>>,
     request |-> <<>>, api |-> <<>>, result |-> <<>>, messages |-> rows,
     nextId |-> id, now |-> t, ticks |-> n]

AskFailures(rows, id, t, n, fetched, request) ==
    LET out(path, result) ==
            [path |-> path, raised |-> FALSE, fetched |-> fetched,
             request |-> request, api |-> <<>>, result |-> result,
             messages |-> rows, nextId |-> id, now |-> t, ticks |-> n]
    IN  {out("transport", TransportFallback), out("system", SystemFallback)}

AskWrites(rows, id, t, n, chat_id, prompt, fetched, request, raw) ==
    LET result == filter_response(raw)
        rows1 == InsertRow(rows, id, chat_id, "user", prompt, t)
    IN  {[path |-> "write2_failed", raised |-> FALSE, fetched |-> fetched,
          request |-> request, api |-> raw, result |-> SystemFallback,
          messages |-> rows1, nextId |-> id + 1, now |-> t, ticks |-> n]}
        \cup
        {[path |-> "ok", raised |-> FALSE, fetched |-> fetched,
          request |-> request, api |-> raw, result |-> result,
          messages |-> InsertRow(rows1, id + 1, chat_id, "assistant", result,
                                 t + dt),
          nextId |-> id + 2, now |-> t + dt, ticks |-> n + dt] :
            dt \in {d \in {0, 1} : n + d <= MaxTicks}}

ask_yandex_gpt(rows, id, t, n, chat_id, prompt) ==
    {AskReadFailed(rows, id, t, n)}
    \cup UNION {
        LET fetched == [i \in 1..Len(rs) |-> rs[i].id]
            request == RequestOf(RoleContent(rs), prompt)
        IN  AskFailures(rows, id, t, n, fetched, request)
            \cup (IF id + 1 < firstId + MaxRows
                  THEN UNION {AskWrites(rows, id, t, n, chat_id, prompt,
                                        fetched, request, raw) :
                              raw \in ApiTexts}
                  ELSE {}) :
        rs \in SelectRecent(rows, chat_id, DefaultMaxMessages)}

\* handle_message answering without the cache: greeting or too long
ReplyOnly(chat, text, path, reply, bot) ==
    \E ok1, ok2 \in bot :
        /\ ok1 => ok2
        /\ lastOp' = [IdleOp EXCEPT !.op = "message", !.chat = chat,
                        !.text = text, !.path = path,
                        !.sends = Sends(reply, ErrorReply, ok1, ok2),
                        !.raised = Raises(Sends(reply, ErrorReply, ok1, ok2))]
        /\ UNCHANGED <<messages, nextId, now, ticks, cache, connections,
                       nextConn, invoked, used>>

\* bot.send_chat_action raises: straight to the except clause
TypingFailed(chat, text, bot) ==
    /\ FALSE \in bot
    /\ \E ok2 \in bot :
        /\ lastOp' = [IdleOp EXCEPT !.op = "message", !.chat = chat,
                        !.text = text, !.path = "typing_failed",
                        !.sends = <<Send(ErrorReply, ok2)>>,
                        !.raised = ~ok2]
        /\ UNCHANGED <<messages, nextId, now, ticks, cache, connections,
                       nextConn, invoked, used>>

\* get_cached_response finds the key
CacheHit(chat, text, prompt, bot) ==
    LET key == CacheKey(chat, prompt)
        response == CacheValue(cache, key)
    IN  /\ key \in CacheKeys(cache)
        /\ \E ok1, ok2 \in bot :
            /\ ok1 => ok2
            /\ lastOp' = [IdleOp EXCEPT !.op = "message", !.chat = chat,
                            !.text = text, !.path = "hit",
                            !.cacheUsed = TRUE, !.result = response,
                            !.sends = Sends(response, ErrorReply, ok1, ok2),
                            !.raised =
                                Raises(Sends(response, ErrorReply, ok1, ok2))]
        /\ cache' = CacheTouch(cache, key)
        /\ used' = Use(used, key)
        /\ UNCHANGED <<messages, nextId, now, ticks, connections, nextConn,
                       invoked>>

\* get_cached_response misses and calls ask_yandex_gpt on thread w
CacheMiss(w, chat, text, prompt, bot) ==
    LET key == CacheKey(chat, prompt)
    IN  /\ key \notin CacheKeys(cache)
        /\ \E o \in ask_yandex_gpt(messages, nextId, now, ticks, chat, prompt) :
            \E ok1, ok2 \in bot :
                LET sends == IF o.raised THEN <<Send(ErrorReply, ok2)>>
                             ELSE Sends(o.result, ErrorReply, ok1, ok2)
                IN  /\ ok1 => ok2
                    /\ o.raised => ok1
                    /\ lastOp' = [IdleOp EXCEPT !.op = "message",
                                    !.chat = chat, !.text = text,
                                    !.path = o.path, !.cacheUsed = TRUE,
                                    !.called = TRUE, !.storeUsed = TRUE,
                                    !.fetched = o.fetched,
                                    !.request = o.request,
                                    !.api = o.api, !.result = o.result,
                                    !.sends = sends, !.raised = Raises(sends)]
                    /\ cache' = IF o.raised THEN cache
                                ELSE CacheStore(cache, key, o.result)
                    /\ used' = IF o.raised THEN used ELSE Use(used, key)
                    /\ messages' = o.messages
                    /\ nextId' = o.nextId
                    /\ now' = o.now
                    /\ ticks' = o.ticks
        /\ connections' = get_connection(connections, w, nextConn)
        /\ nextConn' = IF w \in DOMAIN connections THEN nextConn ELSE nextConn + 1
        /\ invoked' = invoked \cup {key}

handle_message(w, chat, m, bot) ==
    IF m.greeting THEN ReplyOnly(chat, m.text, "greeting", GreetingReply, bot)
    ELSE IF m.tooLong
         THEN ReplyOnly(chat, m.text, "too_long", TooLongReply, bot)
         ELSE \/ TypingFailed(chat, m.text, bot)
              \/ CacheHit(chat, m.text, m.prompt, bot)
              \/ CacheMiss(w, chat, m.text, m.prompt, bot)

clear_history(w, chat, bot) ==
    \E dbOk \in BOOLEAN, ok1, ok2 \in bot :
        LET sends == IF dbOk THEN Sends(ClearedReply, ClearFailedReply, ok1, ok2)
                     ELSE <<Send(ClearFailedReply, ok2)>>
        IN  /\ ok1 => ok2
            /\ ~dbOk => ok1
            /\ lastOp' = [IdleOp EXCEPT !.op = "clear", !.chat = chat,
                            !.path = IF dbOk THEN "ok" ELSE "delete_failed",
                            !.storeUsed = TRUE, !.sends = sends,
                            !.raised = Raises(sends)]
            /\ messages' = IF dbOk THEN DeleteChat(messages, chat) ELSE messages
            /\ cache' = IF dbOk THEN cache_clear(cache) ELSE cache
            /\ used' = IF dbOk THEN NoUses ELSE used
            /\ invoked' = IF dbOk THEN {} ELSE invoked
            /\ connections' = get_connection(connections, w, nextConn)
            /\ nextConn' = IF w \in DOMAIN connections THEN nextConn
                           ELSE nextConn + 1
            /\ UNCHANGED <<nextId, now, ticks>>

send_welcome(chat, bot) ==
    \E ok \in bot :
        /\ lastOp' = [IdleOp EXCEPT !.op = "welcome", !.chat = chat,
                        !.path = "ok", !.sends = <<Send(WelcomeText, ok)>>]
        /\ UNCHANGED <<messages, nextId, now, ticks, cache, connections,
                       nextConn, invoked, used>>

\* time passes between two updates: a second, or the retention window
Tick ==
    \E d \in {1, RetentionSeconds} :
        /\ ticks < MaxTicks
        /\ ticks' = ticks + 1
        /\ now' = now + d
        /\ lastOp' = IdleOp
        /\ UNCHANGED <<messages, nextId, cache, connections, nextConn, invoked,
                       used>>

\* the dispatch loop hands one update to its handler
Dispatch ==
    /\ handled < MaxUpdates
    /\ handled' = handled + 1
    /\ UNCHANGED <<ftext, fcount, threads, main, closed, clearedChats,
                   firstId>>

\* a worker thread that is handling nothing
IdleThread ==
    [pc |-> "idle", op |-> "none", chat |-> 0, prompt |-> <<>>,
     after |-> "none", fresh |-> 0, conn |-> 0, history |-> {},
     result |-> <<>>, path |-> "none", made |-> 0]

\* the main thread inside bot.infinity_polling()
Polling == [pc |-> "polling", size |-> 0, todo |-> <<>>]

\* no handler under way, close_all not begun
Quiet ==
    /\ threads = [w \in Workers |-> IdleThread]
    /\ main = Polling
    /\ closed = {}
    /\ clearedChats = {}

Init ==
    /\ messages = <<>>
    /\ nextId = 1
    /\ firstId = 1
    /\ now = 0
    /\ ticks = 0
    /\ cache = <<>>
    /\ connections = <<>>
    /\ nextConn = 1
    /\ lastOp = IdleOp
    /\ handled = 0
    /\ invoked = {}
    /\ ftext = <<>>
    /\ fcount = 0
    /\ used = NoUses
    /\ Quiet

Clock ==
    Tick /\ UNCHANGED <<handled, ftext, fcount, threads, main, closed,
                        clearedChats, firstId>>

(* Store and cache: two chats, one short text, replies that go through *)

Message ==
    Dispatch /\ \E m \in Inbox, chat \in Chats, w \in Workers :
                    handle_message(w, chat, m, Reliable)

Clear == Dispatch /\ \E chat \in Chats, w \in Workers :
                         clear_history(w, chat, Reliable)

Welcome == Dispatch /\ \E chat \in Chats : send_welcome(chat, Reliable)

Next == Message \/ Clear \/ Welcome \/ Clock

Spec == Init /\ [][Next]_vars

(* Dispatcher: one chat, one worker, every text, replies that may fail *)

LongMessage ==
    Dispatch /\ \E m \in LongInbox : handle_message(1, 1, m, Faulty)

FaultyClear == Dispatch /\ clear_history(1, 1, Faulty)

FaultyWelcome == Dispatch /\ send_welcome(1, Faulty)

NextDispatch == LongMessage \/ FaultyClear \/ FaultyWelcome \/ Clock

SpecDispatch == Init /\ [][NextDispatch]_vars

(* The cache at capacity: the runs start with an empty cache or with a   *)
(* cache that one failed request of chat 1 and then 499 failed requests   *)
(* of a third chat have filled; one worker                                *)

\* the chat whose requests filled the cache
FillerChat == 3

\* its i-th prompt, one character
FillerPrompt(i) == <<1000 + i>>

FullCache ==
    [i \in 1..CacheMaxSize |->
        [key |-> CacheKey(FillerChat, FillerPrompt(i)),
         value |-> TransportFallback]]

\* a full cache whose least recently used entry is the failed request "a"
\* of chat 1
WarmCache ==
    [i \in 1..CacheMaxSize |->
        IF i = 1 THEN [key |-> CacheKey(1, PromptOf(TextA)),
                       value |-> TransportFallback]
        ELSE FullCache[i]]

InitCache ==
    /\ messages = <<>>
    /\ nextId = 1
    /\ firstId = 1
    /\ now = 0
    /\ ticks = 0
    /\ \/ cache = <<>> /\ connections = <<>> /\ nextConn = 1
       \/ cache = WarmCache /\ connections = (1 :> 1) /\ nextConn = 2
    /\ lastOp = IdleOp
    /\ handled = 0
    /\ invoked = CacheKeys(cache)
    /\ ftext = <<>>
    /\ fcount = 0
    /\ used = UsesOf(cache)
    /\ Quiet

CacheMessage ==
    Dispatch /\ \E m \in Inbox, chat \in Chats :
                    handle_message(1, chat, m, Reliable)

CacheClear == Dispatch /\ \E chat \in Chats : clear_history(1, chat, Reliable)

NextCache == CacheMessage \/ CacheClear \/ Clock

SpecCache == InitCache /\ [][NextCache]_vars

(* The request: the runs start after a restart, with an empty cache and a *)
(* table that holds the rows of three or four earlier exchanges of chat 1, *)
(* one exchange a second; one chat, one worker, short and long texts      *)

StoredRows ==
    [i \in 1..8 |->
        [id |-> i, chat_id |-> 1,
         role |-> IF i % 2 = 1 THEN "user" ELSE "assistant",
         content |-> IF i % 2 = 1 THEN TextA ELSE filter_response(ApiPadded),
         timestamp |-> (i - 1) \div 2]]

RequestInbox == {Read(TextA), Read(Text500)}

InitRequest ==
    /\ \E k \in {6, 8} :
        /\ messages = SubSeq(StoredRows, 1, k)
        /\ nextId = k + 1
        /\ firstId = k + 1
    /\ now = 3
    /\ ticks = 0
    /\ cache = <<>>
    /\ connections = <<>>
    /\ nextConn = 1
    /\ lastOp = IdleOp
    /\ handled = 0
    /\ invoked = {}
    /\ ftext = <<>>
    /\ fcount = 0
    /\ used = NoUses
    /\ Quiet

RequestMessage ==
    Dispatch /\ \E m \in RequestInbox : handle_message(1, 1, m, Reliable)

RequestClear == Dispatch /\ clear_history(1, 1, Reliable)

NextRequest == RequestMessage \/ RequestClear \/ Clock

SpecRequest == InitRequest /\ [][NextRequest]_vars

(* filter_response alone: a text built from pieces, filtered up to twice *)

\* pieces of reply text: phrases of the denylist, the two halves of the
\* first one, a space and "ok"
FilterPieces ==
    {Phrase1, Phrase5, SubSeq(Phrase1, 1, 9), SubSeq(Phrase1, 10, 27),
     <<32>>, <<111, 107>>}

RECURSIVE Concats(_)
Concats(n) ==
    IF n = 0 THEN {<<>>}
    ELSE Concats(n - 1) \cup {a \o b : a \in Concats(n - 1), b \in FilterPieces}

InitFilter ==
    /\ messages = <<>>
    /\ nextId = 1
    /\ firstId = 1
    /\ now = 0
    /\ ticks = 0
    /\ cache = <<>>
    /\ connections = <<>>
    /\ nextConn = 1
    /\ lastOp = IdleOp
    /\ handled = 0
    /\ invoked = {}
    /\ ftext \in Concats(MaxPieces)
    /\ fcount = 0
    /\ used = NoUses
    /\ Quiet

ApplyFilter ==
    /\ fcount < 2
    /\ ftext' = filter_response(ftext)
    /\ fcount' = fcount + 1
    /\ UNCHANGED <<messages, nextId, now, ticks, cache, connections, nextConn,
                   lastOp, handled, invoked, used, threads, main, closed,
                   clearedChats, firstId>>

NextFilter == ApplyFilter

SpecFilter == InitFilter /\ [][NextFilter]_vars

(* Interleaved runs: the handlers of two worker threads taken one statement *)
(* at a time, and close_all on the main thread. The Bot API answers;        *)
(* SQLite fails only on a closed connection.                                *)

\* message.chat.id in the interleaved runs
ThreadChats == {1}

\* what requests.post does in the interleaved runs: TRUE when the API answers
ApiOutcomes == {TRUE, FALSE}

StudyUnchanged == UNCHANGED <<now, ticks, lastOp, ftext, fcount, firstId>>

\* the thread is back in the pool; how its handler ended is kept
Finish(t, path) == [IdleThread EXCEPT !.made = t.made, !.path = path]

\* An exception of the registry or of SQLite, by the statement under way:
\* in get_dialog_history it leaves ask_yandex_gpt and get_cached_response
\* and handle_message answers with the error reply; in save_message the
\* except clause of ask_yandex_gpt returns the fallback; in clear_history
\* the except clause answers and the cache is not cleared.
DbFailure(t) ==
    CASE t.after = "select" -> Finish(t, "raised")
      [] t.after \in {"insert1", "insert2"} ->
            [t EXCEPT !.pc = "ret", !.result = SystemFallback]
      [] t.after = "delete" -> Finish(t, "clear_failed")

\* handle_message down to the lookup of get_cached_response: a hit has the
\* stored result to reply with, a miss goes on to ask_yandex_gpt
StartMessage(w, chat, m) ==
    LET t == threads[w]
        key == CacheKey(chat, m.prompt)
    IN  /\ t.pc = "idle"
        /\ handled < MaxStarts
        /\ handled' = handled + 1
        /\ clearedChats' = clearedChats \ {chat}
        /\ IF m.greeting \/ m.tooLong
           THEN /\ threads' = [threads EXCEPT ![w] = Finish(t, "reply_only")]
                /\ UNCHANGED <<cache, used, invoked>>
           ELSE IF key \in CacheKeys(cache)
           THEN /\ cache' = CacheTouch(cache, key)
                /\ used' = Use(used, key)
                /\ threads' = [threads EXCEPT ![w] =
                        [t EXCEPT !.pc = "reply", !.op = "message",
                                  !.chat = chat, !.prompt = m.prompt,
                                  !.result = CacheValue(cache, key),
                                  !.path = "hit"]]
                /\ UNCHANGED invoked
           ELSE /\ threads' = [threads EXCEPT ![w] =
                        [t EXCEPT !.pc = "gc_check", !.op = "message",
                                  !.chat = chat, !.prompt = m.prompt,
                                  !.after = "select", !.path = "miss"]]
                /\ invoked' = invoked \cup {key}
                /\ UNCHANGED <<cache, used>>
        /\ UNCHANGED <<messages, nextId, connections, nextConn, main, closed>>
        /\ StudyUnchanged

\* clear_history down to its call of get_connection
StartClear(w, chat) ==
    LET t == threads[w]
    IN  /\ t.pc = "idle"
        /\ handled < MaxStarts
        /\ handled' = handled + 1
        /\ threads' = [threads EXCEPT ![w] =
                [t EXCEPT !.pc = "gc_check", !.op = "clear", !.chat = chat,
                          !.after = "delete", !.path = "clear"]]
        /\ UNCHANGED <<messages, nextId, cache, used, invoked, connections,
                       nextConn, main, closed, clearedChats>>
        /\ StudyUnchanged

\* get_connection: if thread_id not in self.connections: conn = connect(...)
GcCheck(w) ==
    LET t == threads[w]
    IN  /\ t.pc = "gc_check"
        /\ IF w \in DOMAIN connections
           THEN /\ threads' = [threads EXCEPT ![w] = [t EXCEPT !.pc = "gc_return"]]
                /\ UNCHANGED nextConn
           ELSE /\ threads' = [threads EXCEPT ![w] =
                        [t EXCEPT !.pc = "gc_store", !.fresh = nextConn,
                                  !.made = t.made + 1]]
                /\ nextConn' = nextConn + 1
        /\ UNCHANGED <<messages, nextId, cache, used, invoked, connections,
                       main, closed, clearedChats, handled>>
        /\ StudyUnchanged

\* get_connection: self.connections[thread_id] = conn
GcStore(w) ==
    LET t == threads[w]
    IN  /\ t.pc = "gc_store"
        /\ connections' = get_connection(connections, w, t.fresh)
        /\ threads' = [threads EXCEPT ![w] = [t EXCEPT !.pc = "gc_return"]]
        /\ UNCHANGED <<messages, nextId, cache, used, invoked, nextConn, main,
                       closed, clearedChats, handled>>
        /\ StudyUnchanged

\* get_connection: return self.connections[thread_id], a KeyError when
\* close_all has emptied the registry in between
GcReturn(w) ==
    LET t == threads[w]
    IN  /\ t.pc = "gc_return"
        /\ threads' = [threads EXCEPT ![w] =
                IF w \in DOMAIN connections
                THEN [t EXCEPT !.pc = t.after, !.conn = connections[w]]
                ELSE DbFailure(t)]
        /\ UNCHANGED <<messages, nextId, cache, used, invoked, connections,
                       nextConn, main, closed, clearedChats, handled>>
        /\ StudyUnchanged

\* get_dialog_history: the SELECT on the thread's connection. With fewer
\* rows than the limit it fetches every row of the chat; history keeps their
\* ids (their order is studied in the runs of Spec).
Select(w) ==
    LET t == threads[w]
    IN  /\ t.pc = "select"
        /\ threads' = [threads EXCEPT ![w] =
                IF t.conn \in closed THEN DbFailure(t)
                ELSE [t EXCEPT !.pc = "post",
                               !.history = {r.id : r \in Range(ChatRows(messages, t.chat))}]]
        /\ UNCHANGED <<messages, nextId, cache, used, invoked, connections,
                       nextConn, main, closed, clearedChats, handled>>
        /\ StudyUnchanged

\* requests.post ... filter_response(result), or the except clause
Post(w) ==
    LET t == threads[w]
    IN  /\ t.pc = "post"
        /\ \E ok \in ApiOutcomes, raw \in ApiTexts :
            threads' = [threads EXCEPT ![w] =
                IF ok THEN [t EXCEPT !.pc = "gc_check", !.after = "insert1",
                                     !.result = filter_response(raw)]
                ELSE [t EXCEPT !.pc = "ret", !.result = TransportFallback]]
        /\ UNCHANGED <<messages, nextId, cache, used, invoked, connections,
                       nextConn, main, closed, clearedChats, handled>>
        /\ StudyUnchanged

\* save_message(chat_id, "user", prompt): INSERT and commit
Insert1(w) ==
    LET t == threads[w]
    IN  /\ t.pc = "insert1"
        /\ IF t.conn \in closed
           THEN /\ threads' = [threads EXCEPT ![w] = DbFailure(t)]
                /\ UNCHANGED <<messages, nextId>>
           ELSE /\ messages' = InsertRow(messages, nextId, t.chat, "user",
                                         t.prompt, now)
                /\ nextId' = nextId + 1
                /\ threads' = [threads EXCEPT ![w] =
                        [t EXCEPT !.pc = "gc_check", !.after = "insert2"]]
        /\ UNCHANGED <<cache, used, invoked, connections, nextConn, main,
                       closed, clearedChats, handled>>
        /\ StudyUnchanged

\* save_message(chat_id, "assistant", result): INSERT and commit
Insert2(w) ==
    LET t == threads[w]
    IN  /\ t.pc = "insert2"
        /\ IF t.conn \in closed
           THEN /\ threads' = [threads EXCEPT ![w] = DbFailure(t)]
                /\ UNCHANGED <<messages, nextId>>
           ELSE /\ messages' = InsertRow(messages, nextId, t.chat, "assistant",
                                         t.result, now)
                /\ nextId' = nextId + 1
                /\ threads' = [threads EXCEPT ![w] = [t EXCEPT !.pc = "ret"]]
        /\ UNCHANGED <<cache, used, invoked, connections, nextConn, main,
                       closed, clearedChats, handled>>
        /\ StudyUnchanged

\* ask_yandex_gpt returns and lru_cache stores the result, unless the key
\* was stored while the call ran
Ret(w) ==
    LET t == threads[w]
        key == CacheKey(t.chat, t.prompt)
    IN  /\ t.pc = "ret"
        /\ IF key \in CacheKeys(cache)
           THEN UNCHANGED <<cache, used>>
           ELSE /\ cache' = CacheStore(cache, key, t.result)
                /\ used' = Use(used, key)
        /\ threads' = [threads EXCEPT ![w] = [t EXCEPT !.pc = "reply"]]
        /\ UNCHANGED <<messages, nextId, invoked, connections, nextConn, main,
                       closed, clearedChats, handled>>
        /\ StudyUnchanged

\* handle_message: bot.reply_to(message, response)
Reply(w) ==
    LET t == threads[w]
    IN  /\ t.pc = "reply"
        /\ threads' = [threads EXCEPT ![w] = Finish(t, "answered")]
        /\ UNCHANGED <<messages, nextId, cache, used, invoked, connections,
                       nextConn, main, closed, clearedChats, handled>>
        /\ StudyUnchanged

\* clear_history: DELETE FROM messages WHERE chat_id = ? and commit
Delete(w) ==
    LET t == threads[w]
    IN  /\ t.pc = "delete"
        /\ IF t.conn \in closed
           THEN /\ threads' = [threads EXCEPT ![w] = DbFailure(t)]
                /\ UNCHANGED messages
           ELSE /\ messages' = DeleteChat(messages, t.chat)
                /\ threads' = [threads EXCEPT ![w] = [t EXCEPT !.pc = "cache_clear"]]
        /\ UNCHANGED <<nextId, cache, used, invoked, connections, nextConn,
                       main, closed, clearedChats, handled>>
        /\ StudyUnchanged

\* clear_history: get_cached_response.cache_clear(), then the reply
CacheClearStep(w) ==
    LET t == threads[w]
    IN  /\ t.pc = "cache_clear"
        /\ cache' = cache_clear(cache)
        /\ used' = NoUses
        /\ invoked' = {}
        /\ clearedChats' = clearedChats \cup {t.chat}
        /\ threads' = [threads EXCEPT ![w] = Finish(t, "cleared")]
        /\ UNCHANGED <<messages, nextId, connections, nextConn, main, closed,
                       handled>>
        /\ StudyUnchanged

\* the elements of a set of numbers, smallest first
RECURSIVE Ascending(_)
Ascending(S) ==
    IF S = {} THEN <<>>
    ELSE LET x == CHOOSE x \in S : \A y \in S : x <= y
         IN  <<x>> \o Ascending(S \ {x})

\* infinity_polling returns; close_all starts to iterate over
\* self.connections.values()
CloseAllBegin ==
    /\ main.pc = "polling"
    /\ main' = [pc |-> "loop", size |-> Cardinality(DOMAIN connections),
                todo |-> Ascending({connections[w] : w \in DOMAIN connections})]
    /\ UNCHANGED <<messages, nextId, cache, used, invoked, connections,
                   nextConn, threads, closed, clearedChats, handled>>
    /\ StudyUnchanged

\* one turn of the loop: the iterator raises RuntimeError when the dict has
\* changed size since the loop began, ends the loop when nothing is left,
\* and otherwise yields a connection, which is closed
CloseAllNext ==
    /\ main.pc = "loop"
    /\ IF Cardinality(DOMAIN connections) # main.size
       THEN main' = [main EXCEPT !.pc = "raised"] /\ UNCHANGED closed
       ELSE IF main.todo = <<>>
       THEN main' = [main EXCEPT !.pc = "clear"] /\ UNCHANGED closed
       ELSE /\ closed' = closed \cup {Head(main.todo)}
            /\ main' = [main EXCEPT !.todo = Tail(main.todo)]
    /\ UNCHANGED <<messages, nextId, cache, used, invoked, connections,
                   nextConn, threads, clearedChats, handled>>
    /\ StudyUnchanged

\* self.connections.clear(); close_all returns
CloseAllClear ==
    /\ main.pc = "clear"
    /\ connections' = <<>>
    /\ main' = [main EXCEPT !.pc = "done"]
    /\ UNCHANGED <<messages, nextId, cache, used, invoked, nextConn, threads,
                   closed, clearedChats, handled>>
    /\ StudyUnchanged

ThreadMessage ==
    \E w \in Workers, chat \in ThreadChats, m \in Inbox : StartMessage(w, chat, m)

ThreadClear == \E w \in Workers, chat \in ThreadChats : StartClear(w, chat)

ThreadStep ==
    \E w \in Workers :
        \/ GcCheck(w) \/ GcStore(w) \/ GcReturn(w)
        \/ Select(w) \/ Post(w) \/ Insert1(w) \/ Insert2(w) \/ Ret(w)
        \/ Reply(w)
        \/ Delete(w) \/ CacheClearStep(w)

close_all == CloseAllBegin \/ CloseAllNext \/ CloseAllClear

NextThreads == ThreadMessage \/ ThreadClear \/ ThreadStep \/ close_all

SpecThreads == Init /\ [][NextThreads]_vars

-----------------------------------------------------------------------------
(* Properties *)

\* the step is a run of a handler
Handled == handled' = handled + 1

\* the cache key of the message the last handler got
KeyOf(op) == <<op.chat, PromptOf(op.text)>>

RowSet(rows) == Range(rows)

\* the values tried for max_messages
Limits == (0..MaxLimit) \cup {DefaultMaxMessages}

\* the last n elements of s
Last(s, n) == SubSeq(s, IF Len(s) > n THEN Len(s) - n + 1 ELSE 1, Len(s))

\* C1 as stated: between two cache clears ask_yandex_gpt is called at most
\* once for a (chat_id, prompt) pair: no handler calls it for a pair it was
\* already called for since the last cache_clear.
C1_AtMostOncePerPair ==
    [][(Handled /\ lastOp'.op = "message" /\ lastOp'.called)
        => KeyOf(lastOp') \notin invoked]_vars

\* C1 amended: a request whose pair is in the cache returns the stored value
\* and does not call ask_yandex_gpt; a request whose pair is not in the cache
\* calls it and, unless the call raises, stores what it returns; an entry
\* leaves the cache only by cache_clear or as the least recently used entry
\* of a full cache.
C1_CachedPairNotRecomputed ==
    [][(Handled /\ lastOp'.op = "message" /\ lastOp'.cacheUsed)
        => LET k == KeyOf(lastOp')
           IN  /\ k \in CacheKeys(cache)
                    => /\ ~lastOp'.called
                       /\ lastOp'.result = CacheValue(cache, k)
               /\ k \notin CacheKeys(cache) => lastOp'.called
               /\ (lastOp'.called /\ lastOp'.path # "read_failed")
                    => /\ k \in CacheKeys(cache')
                       /\ CacheValue(cache', k) = lastOp'.result
               /\ (lastOp'.called /\ lastOp'.path = "read_failed")
                    => cache' = cache
               /\ \A gone \in CacheKeys(cache) \ CacheKeys(cache') :
                    /\ Len(cache) = CacheMaxSize
                    /\ gone = cache[1].key
                    /\ lastOp'.called]_vars

\* C1 witness: a repeated request was answered from the cache, in which the
\* pair had taken the place of the least recently used entry
C1_Witness ==
    /\ lastOp.path = "hit"
    /\ lastOp.chat = 2
    /\ lastOp.result # <<>>
    /\ Len(cache) = CacheMaxSize

\* C2 as stated: when ask_yandex_gpt returns one of the two fallback strings,
\* the table holds the rows it held before the call.
C2_FallbackLeavesNoTrace ==
    [][(Handled /\ lastOp'.op = "message" /\ lastOp'.called
        /\ lastOp'.result \in {TransportFallback, SystemFallback})
        => messages' = messages]_vars

\* the rows of the table after the step that the table did not hold before
NewRows == SelectSeq(messages', LAMBDA r : r.id >= nextId)

\* C3 as stated: a successful completion appends exactly two rows to its
\* conversation, the user row with the prompt and then the assistant row
\* with the filtered reply, and no other step inserts a row.
C3_ExactlyTwoRows ==
    [][IF Handled /\ lastOp'.op = "message" /\ lastOp'.path = "ok"
       THEN /\ Len(NewRows) = 2
            /\ NewRows[1].chat_id = lastOp'.chat
            /\ NewRows[1].role = "user"
            /\ NewRows[1].content = PromptOf(lastOp'.text)
            /\ NewRows[2].chat_id = lastOp'.chat
            /\ NewRows[2].role = "assistant"
            /\ NewRows[2].content = filter_response(lastOp'.api)
            /\ NewRows[1].id < NewRows[2].id
       ELSE NewRows = <<>>]_vars

\* timestamps never decrease along rs
Chronological(rs) ==
    \A i, j \in 1..Len(rs) : i < j => rs[i].timestamp <= rs[j].timestamp

\* C4: in every state, for every conversation and limit, what
\* get_dialog_history fetches has at most limit rows, all of that
\* conversation, with non-decreasing timestamps, and is empty when the
\* conversation has no rows.
C4_RecentBounded ==
    \A chat \in Chats, n \in Limits :
        \A rs \in SelectRecent(messages, chat, n) :
            /\ Len(rs) <= n
            /\ \A i \in 1..Len(rs) : rs[i].chat_id = chat /\ rs[i] \in RowSet(messages)
            /\ Chronological(rs)
            /\ ChatRows(messages, chat) = <<>> => rs = <<>>

\* C4 witness: a conversation holds three rows written in different seconds,
\* more than some of the limits tried
C4_Witness ==
    \E chat \in Chats :
        /\ Len(ChatRows(messages, chat)) = 3
        /\ ChatRows(messages, chat)[1].timestamp
            < ChatRows(messages, chat)[3].timestamp

\* C5 as stated: what get_dialog_history fetches is the last min(n, k) rows
\* of the conversation in the order they were appended.
C5_AppendOrder ==
    \A chat \in Chats, n \in Limits :
        \A rs \in SelectRecent(messages, chat, n) :
            rs = Last(ChatRows(messages, chat), n)

\* C6: after clear_history has deleted the rows of conversation c,
\* get_dialog_history fetches nothing for c whatever the limit; a clear of a
\* conversation without rows leaves the table as it was; and a conversation
\* without rows stays so until a completion for it writes.
C6_ClearEmpties ==
    [][/\ (Handled /\ lastOp'.op = "clear" /\ lastOp'.path = "ok")
            => /\ \A n \in Limits :
                    SelectRecent(messages', lastOp'.chat, n) = {<<>>}
               /\ ChatRows(messages, lastOp'.chat) = <<>> => messages' = messages
               /\ \A c \in Chats \ {lastOp'.chat} :
                    ChatRows(messages', c) = ChatRows(messages, c)
       /\ \A c \in Chats :
            (ChatRows(messages, c) = <<>> /\ ChatRows(messages', c) # <<>>)
                => lastOp'.called /\ lastOp'.chat = c]_vars

\* C6 witness: the second update is a clear that removed the two rows the
\* first update wrote
C6_Witness ==
    /\ lastOp.op = "clear"
    /\ lastOp.path = "ok"
    /\ handled = 2
    /\ nextId = 3
    /\ messages = <<>>

\* C7: right after a handler that inserted, no row of any conversation is
\* older than seven days on the store clock, and the rows it removed were
\* all older than that; a step that does not insert removes no row, except
\* clear_history the rows of its conversation.
C7_InsertPrunes ==
    [][/\ nextId' > nextId
            => /\ \A r \in RowSet(messages') :
                    r.timestamp >= now' - RetentionSeconds
               /\ \A r \in RowSet(messages) \ RowSet(messages') :
                    r.timestamp < now' - RetentionSeconds
       /\ nextId' = nextId
            => \A r \in RowSet(messages) \ RowSet(messages') :
                    /\ lastOp'.op = "clear"
                    /\ r.chat_id = lastOp'.chat]_vars

\* C7 witness: the first update wrote one row, more than seven days passed,
\* and the second update wrote two rows and pruned the first
C7_Witness ==
    /\ handled = 2
    /\ nextId = 4
    /\ lastOp.path = "ok"
    /\ Len(messages) = 2
    /\ now > RetentionSeconds

\* C8 as stated: for a text of more than 500 characters handle_message sends
\* the too-long rejection and uses neither the cache, nor ask_yandex_gpt, nor
\* the store.
C8_TooLongRejected ==
    (lastOp.op = "message" /\ Len(lastOp.text) > MaxTextLen)
        => /\ lastOp.sends[1].reply = TooLongReply
           /\ ~lastOp.cacheUsed
           /\ ~lastOp.called
           /\ ~lastOp.storeUsed

\* C8 amended: for a text of more than 500 characters, counted on the whole
\* text, the first reply handle_message sends is the too-long rejection,
\* unless the text lower-cased and stripped is a greeting, which gets the
\* greeting; if that send fails the only other reply is the generic error;
\* and the cache, ask_yandex_gpt and the store are not used.
C8_TooLongOrGreeting ==
    [][(Handled /\ lastOp'.op = "message" /\ Len(lastOp'.text) > MaxTextLen)
        => /\ lastOp'.sends[1].reply =
                IF lastOp'.text \in GreetingTexts THEN GreetingReply
                ELSE TooLongReply
           /\ Len(lastOp'.sends) <= 2
           /\ Len(lastOp'.sends) = 2
                => ~lastOp'.sends[1].ok /\ lastOp'.sends[2].reply = ErrorReply
           /\ ~lastOp'.cacheUsed
           /\ ~lastOp'.called
           /\ ~lastOp'.storeUsed
           /\ UNCHANGED <<messages, nextId, cache, connections, nextConn,
                          invoked>>]_vars

\* C8 witness: a text of 501 characters was answered with the rejection
C8_Witness ==
    /\ lastOp.op = "message"
    /\ Len(lastOp.text) = MaxTextLen + 1
    /\ lastOp.sends = <<Send(TooLongReply, TRUE)>>

\* C9 as stated: whatever fails, a handler ends without raising and has sent
\* a reply.
C9_AlwaysReplies ==
    lastOp.op \in {"message", "clear", "welcome"}
        => /\ ~lastOp.raised
           /\ \E i \in 1..Len(lastOp.sends) : lastOp.sends[i].ok

\* C10 as stated: filtering a filtered text changes nothing: the output holds
\* no phrase of the denylist and no whitespace at either end.
C10_FilterIdempotent ==
    fcount >= 1
        => /\ filter_response(ftext) = ftext
           /\ \A i \in 1..Len(unwanted_phrases) :
                ~Contains(ftext, unwanted_phrases[i])
           /\ Strip(ftext) = ftext

\* the step is thread w looking its request up in the cache
Looks(w) ==
    /\ threads[w].pc = "idle"
    /\ threads'[w].pc # "idle"
    /\ threads'[w].op = "message"

\* C11 as stated: the cache_clear of a clear command, whatever its chat,
\* leaves the cache empty, and the first request for a pair after it calls
\* ask_yandex_gpt again: a request for a pair that ask_yandex_gpt was not
\* called for since the last cache_clear is never answered from the cache.
C11_ClearEmptiesAll ==
    [][\A w \in Workers :
        /\ (threads[w].pc = "cache_clear" /\ threads'[w].pc = "idle")
                => cache' = <<>>
        /\ (Looks(w)
             /\ CacheKey(threads'[w].chat, threads'[w].prompt) \notin invoked)
                => threads'[w].path = "miss"]_vars

\* the texts of the dispatcher runs that, lower-cased and stripped, are one
\* of the two greetings
C12_GreetingInputs == {text \in LongTexts : Strip(Lower(text)) \in Greetings}

\* C12: for a text that lower-cased and stripped of surrounding whitespace is
\* one of the two greetings, the reply handle_message sends is the canned
\* greeting (the generic error reply follows only when that send fails), and
\* it neither reads nor writes the table, the cache or the registry and does
\* not call ask_yandex_gpt.
C12_GreetingShortCircuit ==
    [][(Handled /\ lastOp'.op = "message"
        /\ lastOp'.text \in C12_GreetingInputs)
        => /\ lastOp'.sends[1].reply = GreetingReply
           /\ Len(lastOp'.sends) <= 2
           /\ Len(lastOp'.sends) = 2
                => ~lastOp'.sends[1].ok /\ lastOp'.sends[2].reply = ErrorReply
           /\ ~lastOp'.cacheUsed
           /\ ~lastOp'.called
           /\ ~lastOp'.storeUsed
           /\ lastOp'.api = <<>>
           /\ UNCHANGED <<messages, nextId, cache, used, connections, nextConn,
                          invoked>>]_vars

\* C12 witness: " PRIVET\n" in capitals, with whitespace around it, was
\* answered with the greeting
C12_Witness ==
    /\ lastOp.op = "message"
    /\ lastOp.text = TextShout
    /\ lastOp.sends = <<Send(GreetingReply, TRUE)>>

\* the key among keys whose latest lookup or store is the oldest
LeastRecent(u, keys) ==
    u[CHOOSE i \in 1..Len(u) :
        u[i] \in keys /\ \A j \in 1..(i - 1) : u[j] \notin keys]

\* C13: the cache never holds more than 500 entries; a result stored into a
\* cache of 500 entries takes the place of the entry whose latest lookup or
\* store is the oldest, and every other entry stays; a result stored into a
\* cache with room, and a lookup that hits, remove nothing.
C13_LruBounded ==
    [][/\ Len(cache') <= CacheMaxSize
       /\ (Handled /\ lastOp'.op = "message" /\ lastOp'.cacheUsed)
            => LET k == KeyOf(lastOp')
                   stored == lastOp'.called /\ lastOp'.path # "read_failed"
                   old == LeastRecent(used, CacheKeys(cache))
               IN  IF stored /\ Len(cache) = CacheMaxSize
                   THEN /\ Len(cache') = CacheMaxSize
                        /\ old \notin CacheKeys(cache')
                        /\ k \in CacheKeys(cache')
                        /\ {x \in Range(cache) : x.key # old}
                                \subseteq Range(cache')
                   ELSE Range(cache) \subseteq Range(cache')]_vars

\* C13 witness: the oldest entry of a full cache, the request of chat 1, was
\* looked up, and the store of the next new pair evicted the entry after it
C13_Witness ==
    /\ Len(cache) = CacheMaxSize
    /\ handled = 2
    /\ lastOp.called
    /\ lastOp.chat = 2
    /\ cache[CacheMaxSize - 1] = WarmCache[1]
    /\ cache[1] = WarmCache[3]

\* C14: while close_all has not begun, under every interleaving of the
\* statements of get_connection on two threads: a thread creates at most
\* one connection; its entry in the registry, once made, stays what it is;
\* every call returns, without an exception, the entry of the calling
\* thread, which is the one connection that thread created; and no two
\* threads have the same connection.
C14_OneConnectionPerWorker ==
    [][(main.pc = "polling" /\ main'.pc = "polling")
        => \A w \in Workers :
            /\ threads'[w].made <= 1
            /\ w \in DOMAIN connections
                => /\ w \in DOMAIN connections'
                   /\ connections'[w] = connections[w]
            /\ (threads[w].pc = "gc_return" /\ threads'[w] # threads[w])
                => /\ threads'[w].pc = threads[w].after
                   /\ threads[w].made = 1
                   /\ w \in DOMAIN connections
                   /\ threads'[w].conn = connections[w]
            /\ \A v \in Workers \ {w} :
                (w \in DOMAIN connections' /\ v \in DOMAIN connections')
                    => connections'[w] # connections'[v]]_vars

\* C14 witness: the two threads each handle their first message at the same
\* time, and each is past its second call of get_connection with the
\* connection it created in its first
C14_Witness ==
    /\ main.pc = "polling"
    /\ handled = 2
    /\ \A w \in Workers :
        /\ threads[w].pc = "insert1"
        /\ threads[w].made = 1
        /\ threads[w].conn = connections[w]
    /\ connections[1] # connections[2]

\* C15 as stated: when close_all returns, every connection that was created
\* is closed and the registry is empty, worker threads still running or not.
C15_ShutdownClosesAll ==
    [][(main.pc = "clear" /\ main'.pc = "done")
        => /\ connections' = <<>>
           /\ \A c \in 1..(nextConn - 1) : c \in closed']_vars

\* the smaller of two numbers
Min(a, b) == IF a < b THEN a ELSE b

\* C16: the message list ask_yandex_gpt posts is the system instruction,
\* then the rows get_dialog_history(chat_id, 7) fetched from the table as it
\* is when the call begins, then one user message with the prompt. The rows
\* fetched are min(7, rows of the chat) different rows of the chat, with
\* timestamps that do not decrease, and no row left out is newer than one of
\* them; so the list has 2 + min(7, rows of the chat) elements. The prompt is
\* the first 300 characters of the inbound text. When the read of the
\* history raises, nothing is posted.
C16_RequestShape ==
    [][(Handled /\ lastOp'.op = "message" /\ lastOp'.called)
        => IF lastOp'.path = "read_failed" THEN lastOp'.request = <<>>
           ELSE \E req \in {lastOp'.request}, ids \in {lastOp'.fetched},
                   rows \in {Range(ChatRows(messages, lastOp'.chat))} :
                /\ Len(req) = 2 + Min(DefaultMaxMessages, Cardinality(rows))
                /\ req[1] = [role |-> "system", text |-> SystemText]
                /\ req[Len(req)].role = "user"
                /\ req[Len(req)].text
                    = SubSeq(lastOp'.text, 1,
                             Min(PromptLen, Len(lastOp'.text)))
                /\ Len(req[Len(req)].text) <= PromptLen
                /\ Len(ids) = Len(req) - 2
                /\ Cardinality(Range(ids)) = Len(ids)
                /\ \A i \in 1..Len(ids) :
                    \E r \in rows :
                        /\ r.id = ids[i]
                        /\ req[i + 1].role = r.role
                        /\ req[i + 1].text = r.content
                        /\ \A q \in rows :
                            \/ q.timestamp <= r.timestamp
                            \/ \E j \in (i + 1)..Len(ids) : q.id = ids[j]]_vars

\* C16 witness: a text of 500 characters was sent on with seven of the eight
\* or more rows of its chat: nine messages, the last with 300 characters
C16_Witness ==
    /\ lastOp.called
    /\ Len(lastOp.text) = MaxTextLen
    /\ Len(lastOp.request) = DefaultMaxMessages + 2
    /\ Len(lastOp.request[DefaultMaxMessages + 2].text) = PromptLen

\* C17 as stated: without a cache_clear in between, ask_yandex_gpt is called
\* at most once for a pair, also when two threads handle the same pair at
\* the same time: no thread begins a call for a pair for which a call was
\* begun since the last cache_clear.
C17_SingleFlight ==
    [][\A w \in Workers :
        (Looks(w) /\ threads'[w].path = "miss")
            => CacheKey(threads'[w].chat, threads'[w].prompt) \notin invoked]_vars

\* C18 as stated: when every handler has finished, a chat that was cleared
\* and got no message after the clear has no row in the table and no entry
\* in the cache, whatever completion was under way during the clear.
C18_ClearWins ==
    (\A w \in Workers : threads[w].pc = "idle")
        => \A c \in clearedChats :
            /\ ChatRows(messages, c) = <<>>
            /\ \A k \in CacheKeys(cache) : k[1] # c

\* the two fallback strings of ask_yandex_gpt
Fallbacks == {TransportFallback, SystemFallback}

\* C19: a fallback string that ask_yandex_gpt returned is stored in the
\* cache under the pair; a request for a pair that has a fallback in the
\* cache replies with that string, calls and posts nothing and leaves the
\* table alone; and the entry stays until cache_clear or until it is the
\* least recently used entry of a full cache into which a new pair is stored.
C19_FallbackMemoized ==
    [][\E before \in {Range(cache)}, after \in {Range(cache')} :
        /\ (Handled /\ lastOp'.op = "message" /\ lastOp'.cacheUsed)
            => \E k \in {KeyOf(lastOp')}, op \in {lastOp'} :
                /\ (op.called /\ op.result \in Fallbacks)
                    => [key |-> k, value |-> op.result] \in after
                /\ \A v \in Fallbacks :
                    [key |-> k, value |-> v] \in before
                        => /\ ~op.called
                           /\ op.result = v
                           /\ op.sends[1].reply = v
                           /\ op.request = <<>>
                           /\ op.api = <<>>
                           /\ messages' = messages
        /\ \A x \in before \ after :
            x.value \in Fallbacks
                => \/ lastOp'.op = "clear" /\ lastOp'.path = "ok"
                   \/ /\ lastOp'.called
                      /\ Len(cache) = CacheMaxSize
                      /\ x = cache[1]]_vars

\* C19 witness: the second save_message of a request failed, and a later
\* request with the same pair was answered with the stored fallback
C19_Witness ==
    /\ lastOp.path = "hit"
    /\ lastOp.result = SystemFallback
    /\ lastOp.sends = <<Send(SystemFallback, TRUE)>>
    /\ Len(ChatRows(messages, lastOp.chat)) = 1

\* C20: a request answered from the cache reads and writes no row and uses
\* no connection; its reply is the value stored under its pair; and a value
\* in the cache is never replaced while its entry stays.
C20_HitLeavesStore ==
    [][/\ (Handled /\ lastOp'.op = "message" /\ lastOp'.path = "hit")
            => /\ UNCHANGED <<messages, nextId, connections, nextConn>>
               /\ ~lastOp'.called
               /\ ~lastOp'.storeUsed
               /\ lastOp'.fetched = <<>>
               /\ lastOp'.request = <<>>
               /\ \E x \in Range(cache) :
                    /\ x.key = KeyOf(lastOp')
                    /\ x.value = lastOp'.result
               /\ lastOp'.sends[1].reply = lastOp'.result
       /\ \A x \in Range(cache), y \in Range(cache') :
            x.key = y.key => x.value = y.value]_vars

\* C20 witness: two messages of a chat were answered with the same completion
\* result, the second from the cache, and the chat has one user row
C20_Witness ==
    /\ handled = 2
    /\ lastOp.path = "hit"
    /\ lastOp.result = filter_response(ApiPadded)
    /\ Len(SelectSeq(ChatRows(messages, lastOp.chat),
                      LAMBDA r : r.role = "user")) = 1

=============================================================================
